---- MODULE Spec2Model ----
(***************************************************************************)
(* Photo-Map-Tool (src/main.py): the per-folder metadata cache             *)
(* (process_image_folder, _load_csv_cache, _save_csv_cache), the geocode   *)
(* dedupe cache and request spacing, the combined cache with its manifest  *)
(* (load_data_and_display_ui, force_rebuild_cache), the seed-based         *)
(* clustering (_perform_clustering, haversine), the list of groups and the *)
(* display (populate_folder_list, on_folder_selected,                      *)
(* display_map_from_dataframe) and the conversion of GPS coordinates       *)
(* (extract_exif_data).                                                    *)
(*                                                                         *)
(* Units.  Coordinates are integers in millidegrees (6 is 0.006 degrees);  *)
(* the coordinates that convert_dms_to_decimal returns are in arcseconds.  *)
(* Distances are whole metres.  Time is in tenths of a second.             *)
(***************************************************************************)
EXTENDS Integers, Sequences, FiniteSets, TLC

VARIABLES
    csv,                  \* folder -> Absent or [mtime, header, rows]: the folder cache files
    clock,                \* file-system time: the mtime given to the next write
    photo_root_path,      \* self.photo_root_path: NoRoot or Root
    parquet,              \* combined_geodata.parquet: Absent or [rows]: the stored dataset
    manifest,             \* cache_manifest.json: Absent or folder -> mtime
    master_df,            \* self.master_df: sequence of dataset rows
    loadInfo,             \* what the last load_data_and_display_ui did and what has happened
                          \* to the files since (observation)
    todo,                 \* remaining calls of the running handler
    pc,                   \* position inside process_image_folder
    folder_path,          \* process_image_folder: its argument
    idx,                  \* process_image_folder: loop index into image_files (1-based)
    all_file_data,        \* process_image_folder: the dict being built
    wasCanceled,          \* QProgressDialog cancellation flag
    nominatim_api_cache,  \* self.nominatim_api_cache: key -> <<country, city>>
    sinceLookup,          \* tenths of a second since the last genuine lookup returned (saturating)
    lookups,              \* geocode events of the running scan (observation)
    lastGap,              \* sinceLookup at the moment the last genuine lookup was issued (observation)
    lastStep,             \* what the last loop iteration of the scan did (observation)
    cluster_distance,     \* self.cluster_distance, in metres
    df,                   \* the argument of the last _perform_clustering
    clusters_data,        \* self.clusters_data
    grouping_mode,        \* self.grouping_mode
    buttons,              \* self.folder_button_group: the groups listed, [label, count]
    displayed,            \* the argument of the last display_map_from_dataframe (observation)
    message,              \* the last message box shown of "Fehlende Daten", "Gespeichert"
                          \* and "Kein Ordner", or NoMessage
    gps_info,             \* extract_exif_data: the GPS tags of the image being read
    decimal               \* extract_exif_data: <<lat, lon>> converted from gps_info

vars == <<csv, clock, photo_root_path, parquet, manifest, master_df, loadInfo, todo, pc,
          folder_path, idx, all_file_data, wasCanceled, nominatim_api_cache,
          sinceLookup, lookups, lastGap, lastStep, cluster_distance, df, clusters_data,
          grouping_mode, buttons, displayed, message, gps_info, decimal>>

scanVars == <<pc, folder_path, idx, all_file_data, wasCanceled>>
geoVars == <<nominatim_api_cache, sinceLookup, lookups, lastGap, lastStep>>
clusterVars == <<cluster_distance, df, clusters_data>>
combinedVars == <<parquet, manifest, master_df, loadInfo>>
viewVars == <<grouping_mode, buttons, displayed, message>>
exifVars == <<gps_info, decimal>>

-----------------------------------------------------------------------------
(* Bounds of the model.                                                    *)

\* File-system writes (saves and touches of folder caches) in one behaviour.
MaxClock == 3

\* Records handed to one _perform_clustering.
MaxPoints == 3

\* Rows of a folder cache file that the program finds when it starts.
MaxRows == 3

\* Records of a combined dataset that the view is given.
MaxRecords == 2

\* Whole degrees of a GPS coordinate that extract_exif_data converts.
MaxDegrees == 1

-----------------------------------------------------------------------------
(* Python values.                                                          *)

None == [k |-> "None"]
PyFloat(x) == [k |-> "float", f |-> x]
PyStr(s) == [k |-> "str", s |-> s]

\* Python truth value: None, 0.0 and '' are false.
Truthy(v) ==
    CASE v.k = "None" -> FALSE
      [] v.k = "float" -> v.f # 0
      [] v.k = "str" -> v.s # ""

\* Python `a or b`.
PyOr(a, b) == IF Truthy(a) THEN a ELSE b

\* dict.get(key) and dict.get(key, default) on a row dict (a record).
Get(d, key) == IF key \in DOMAIN d THEN d[key] ELSE None
GetDefault(d, key, default) == IF key \in DOMAIN d THEN d[key] ELSE default

\* A Python dict keyed by path: a sequence of [key, val] in insertion order.
DictKeys(d) == {d[n].key : n \in DOMAIN d}
DictHas(d, key) == key \in DictKeys(d)
DictAt(d, key) == d[CHOOSE n \in DOMAIN d : d[n].key = key].val
DictSet(d, key, val) ==
    IF DictHas(d, key)
    THEN [n \in DOMAIN d |-> IF d[n].key = key THEN [key |-> key, val |-> val] ELSE d[n]]
    ELSE Append(d, [key |-> key, val |-> val])

-----------------------------------------------------------------------------
(* The photo collection on disk.                                           *)

Absent == [k |-> "absent"]
NoRoot == "None"
Root == "root"

\* Immediate subfolders of the root that hold images.
Folders == {"A", "B"}

\* The root itself, as os.path.relpath names it (line 436).
RootDir == "."

\* os.walk(folder_path) filtered by SUPPORTED_EXTENSIONS, as relative paths (lines
\* 690-694): the walk descends, so the root holds the images of its subfolders.
image_files(folder) ==
    CASE folder = "A" -> <<"a1.jpg", "a2.jpg">>
      [] folder = "B" -> <<"b1.jpg">>
      [] folder = RootDir -> <<"A/a1.jpg", "A/a2.jpg", "B/b1.jpg">>

\* os.path.join(csv_dir, p) (line 437) as <<subfolder, file>>: a path relative to the
\* root names the same file as the path relative to the subfolder.
JoinPath(csv_dir, p) ==
    CASE csv_dir # RootDir -> <<csv_dir, p>>
      [] csv_dir = RootDir /\ p = "A/a1.jpg" -> <<"A", "a1.jpg">>
      [] csv_dir = RootDir /\ p = "A/a2.jpg" -> <<"A", "a2.jpg">>
      [] csv_dir = RootDir /\ p = "B/b1.jpg" -> <<"B", "b1.jpg">>
      [] OTHER -> <<csv_dir, p>>

DT1 == "2020:05:01 10:00:00"

\* What a successful extract_exif_data returns for each file.
ExifOf(path) ==
    CASE path \in {"a1.jpg", "A/a1.jpg"} ->
             [lat |-> PyFloat(6), lon |-> PyFloat(12), datetime |-> None]
      [] path \in {"a2.jpg", "A/a2.jpg"} ->
             [lat |-> PyFloat(12), lon |-> PyFloat(6), datetime |-> PyStr(DT1)]
      [] path \in {"b1.jpg", "B/b1.jpg"} ->
             [lat |-> PyFloat(0), lon |-> PyFloat(12), datetime |-> None]

\* The image has no GPSInfo block with all four tags (line 113), or none is being read.
NoGps == [k |-> "none"]

\* Mutant of convert_dms_to_decimal: only a southern latitude is negated.
ConvertNegatesSouthOnly(dms, ref) ==
    LET dec == dms[1] * 3600 + dms[2] * 60 + dms[3]
    IN  PyFloat(IF ref = "S" THEN -dec ELSE dec)

\* convert_dms_to_decimal (lines 114-118), in arcseconds: degrees + minutes / 60 +
\* seconds / 3600 degrees are degrees * 3600 + minutes * 60 + seconds arcseconds.  The
\* negation of 0.0 is -0.0, which equals 0.0 and is not less than it.
convert_dms_to_decimal(dms, ref) ==
    LET dec == dms[1] * 3600 + dms[2] * 60 + dms[3]
    IN  PyFloat(IF ref \in {"S", "W"} THEN -dec ELSE dec)

\* Lines 112-121: the coordinates of a GPSInfo block, <<lat, lon>>.
GpsToDecimal(info) ==
    IF info = NoGps THEN <<None, None>>
    ELSE <<convert_dms_to_decimal(info.GPSLatitude, info.GPSLatitudeRef),
           convert_dms_to_decimal(info.GPSLongitude, info.GPSLongitudeRef)>>

\* Mutant of extract_exif_data: a failure while reading does not empty the result.
ExtractIgnoresFailure(path, readable) == ExifOf(path)

\* extract_exif_data: the file's metadata, or all None when reading it raises.
extract_exif_data(path, readable) ==
    IF readable THEN ExifOf(path)
    ELSE [lat |-> None, lon |-> None, datetime |-> None]

-----------------------------------------------------------------------------
(* Reverse geocoding.                                                      *)

\* Answers of the geocoding service: a failure, or a reply with an address.
Responses ==
    << [ok |-> FALSE, address |-> <<>>],
       [ok |-> TRUE, address |-> [country |-> "DE", city |-> "Berlin"]],
       [ok |-> TRUE, address |-> [state |-> "Atlantik"]] >>

city_candidates == <<"city", "town", "village", "hamlet", "municipality", "county", "state_district">>

\* fetch_location_from_nominatim: <<country, city>> from one response.
fetch_location_from_nominatim(response) ==
    IF ~response.ok \/ DOMAIN response.address = {}
    THEN <<None, None>>
    ELSE LET address == response.address
             country == IF "country" \in DOMAIN address THEN PyStr(address["country"]) ELSE None
             hits == {n \in DOMAIN city_candidates :
                        city_candidates[n] \in DOMAIN address /\ address[city_candidates[n]] # ""}
             first == CHOOSE n \in hits : \A m \in hits : n <= m
             city == IF hits # {} THEN PyStr(address[city_candidates[first]])
                     ELSE IF "state" \in DOMAIN address THEN PyStr(address["state"])
                     ELSE PyStr("Unbekannter Ort")
         IN  <<country, city>>

\* round(x, 2) on a coordinate in millidegrees: the nearest multiple of 10, ties to even.
Round2(x) ==
    LET r == x % 10
        base == x - r
    IN  IF r < 5 THEN base
        ELSE IF r > 5 THEN base + 10
        ELSE IF (base \div 10) % 2 = 0 THEN base ELSE base + 10

nominatim_key(lat, lon) == <<Round2(lat.f), Round2(lon.f)>>

\* time.sleep(1.1), in tenths of a second.
SleepTenths == 11

\* The value of sinceLookup while no genuine lookup has returned yet: more than any sleep.
LongAgo == SleepTenths + 1

\* self.settings.value("clusterDistance", 1000, type=int)
DefaultClusterDistance == 1000

\* self.settings.value("groupingMode", "Ordner", type=str)
DefaultGroupingMode == "Ordner"

\* No group has been handed to display_map_from_dataframe yet.
NoDisplay == [k |-> "none"]

\* The last operation showed no message box.
NoMessage == ""

-----------------------------------------------------------------------------
(* The folder cache file.                                                  *)

Floats == -20 .. 60

\* Line 36: the header that _save_csv_cache writes.
CSV_FIELDNAMES ==
    <<"filepath", "latitude", "longitude", "country", "city", "datetime_original">>

\* str(x) as csv.writer writes a float, and float(s) as _load_csv_cache parses it.
repr(x) == ToString(x)
IsFloatText(s) == \E x \in Floats : repr(x) = s
float(s) == PyFloat(CHOOSE x \in Floats : repr(x) = s)

\* csv.writer: None is written as '', a float as its repr, a str as itself.
Cell(v) ==
    CASE v.k = "None" -> ""
      [] v.k = "float" -> repr(v.f)
      [] v.k = "str" -> v.s

\* One row of _save_csv_cache's writer.writerow.
SaveRow(rel_path, details) ==
    [filepath |-> rel_path,
     latitude |-> Cell(PyOr(Get(details, "lat"), GetDefault(details, "latitude", PyStr("")))),
     longitude |-> Cell(PyOr(Get(details, "lon"), GetDefault(details, "longitude", PyStr("")))),
     country |-> Cell(GetDefault(details, "country", PyStr(""))),
     city |-> Cell(GetDefault(details, "city", PyStr(""))),
     datetime_original |-> Cell(PyOr(Get(details, "datetime"),
                                     GetDefault(details, "datetime_original", PyStr(""))))]

\* _save_csv_cache: the rows written, in dict order.
SaveRows(data) == [n \in DOMAIN data |-> SaveRow(data[n].key, data[n].val)]

\* One row of _load_csv_cache.
LoadRow(row) ==
    [latitude |-> IF row.latitude # "" THEN float(row.latitude) ELSE None,
     longitude |-> IF row.longitude # "" THEN float(row.longitude) ELSE None,
     country |-> PyOr(PyStr(row.country), None),
     city |-> PyOr(PyStr(row.city), None),
     datetime_original |-> PyOr(PyStr(row.datetime_original), None)]

\* float() raises ValueError on this row.
Malformed(row) ==
    \/ row.latitude # "" /\ ~IsFloatText(row.latitude)
    \/ row.longitude # "" /\ ~IsFloatText(row.longitude)

RECURSIVE LoadRows(_, _)
\* The DictReader loop: rows are added until one raises, which ends the loop.
LoadRows(rows, acc) ==
    IF rows = <<>> \/ Malformed(Head(rows)) THEN acc
    ELSE LoadRows(Tail(rows), DictSet(acc, Head(rows).filepath, LoadRow(Head(rows))))

\* _load_csv_cache.
_load_csv_cache(file) == IF file = Absent THEN <<>> ELSE LoadRows(file.rows, <<>>)

-----------------------------------------------------------------------------
(* process_image_folder.                                                   *)

\* Folders a scan can be started on: those with images and one without.
ScanFolders == Folders \cup {"E"}

\* Folders that can hold a folder cache file: those and the root itself.
CacheDirs == ScanFolders \cup {RootDir}

ImagesIn(folder) == IF folder \in Folders \cup {RootDir} THEN image_files(folder) ELSE <<>>

\* Line 708: the file is skipped.
IsSkipped(data, rel_path) ==
    DictHas(data, rel_path) /\ Truthy(Get(DictAt(data, rel_path), "datetime_original"))

\* Mutant of NeedsLocation: the check of the cached country is dropped.
NeedsLocationAlways(data, rel_path) == TRUE

\* Line 714: the row is (re)built from the extraction, with a geocode lookup.
NeedsLocation(data, rel_path) ==
    ~DictHas(data, rel_path) \/ ~Truthy(Get(DictAt(data, rel_path), "country"))

\* Mutant of SleepsAfter: the sleep sits in the branch of the dedupe cache.
SleepsAfterCached(inCache) == inCache

\* Lines 717-722: whether time.sleep(1.1) runs after resolving a key.
SleepsAfter(inCache) == ~inCache

\* Mutant of CacheAfterFetch: only a successful lookup is kept.
CacheOnlySuccess(cache, key, result) ==
    IF result[1] # None THEN (key :> result) @@ cache ELSE cache

\* Line 721: what the dedupe cache keeps for a key after a genuine lookup.
CacheAfterFetch(cache, key, result) == (key :> result) @@ cache

\* Lines 705-728: one iteration of the loop on rel_path that is not cancelled.  The result
\* holds the new dict, the new dedupe cache, the geocode event (or none) and whether the
\* iteration slept, and the branch taken.
ProcessFile(data, cache, rel_path, readable, response) ==
    IF IsSkipped(data, rel_path)
    THEN [data |-> data, cache |-> cache, events |-> <<>>, slept |-> FALSE, branch |-> "skip"]
    ELSE
      LET exif == extract_exif_data(rel_path, readable)
          lat == exif.lat
          lon == exif.lon
          dt == exif.datetime
      IN
      IF NeedsLocation(data, rel_path)
      THEN
        IF lat # None /\ lon # None
        THEN
          LET key == nominatim_key(lat, lon)
              inCache == key \in DOMAIN cache
              result == IF inCache THEN cache[key] ELSE fetch_location_from_nominatim(response)
          IN  [data |-> DictSet(data, rel_path,
                                [lat |-> lat, lon |-> lon, country |-> result[1],
                                 city |-> result[2], datetime |-> dt]),
               cache |-> IF inCache THEN cache ELSE CacheAfterFetch(cache, key, result),
               events |-> <<[path |-> rel_path, key |-> key, genuine |-> ~inCache,
                             result |-> result]>>,
               slept |-> SleepsAfter(inCache), branch |-> "geocode"]
        ELSE
          [data |-> DictSet(data, rel_path,
                            [lat |-> None, lon |-> None, country |-> None,
                             city |-> None, datetime |-> dt]),
           cache |-> cache, events |-> <<>>, slept |-> FALSE, branch |-> "nogps"]
      ELSE
        [data |-> DictSet(data, rel_path,
                          [DictAt(data, rel_path) EXCEPT !.datetime_original = dt]),
         cache |-> cache, events |-> <<>>, slept |-> FALSE, branch |-> "datetime"]

\* Mutant of ClearedCache: the dedupe cache is not cleared.
CacheKept(cache) == cache

\* Line 699: self.nominatim_api_cache.clear().
ClearedCache(cache) == <<>>

\* QProgressDialog.setValue with autoReset (the default): reaching the maximum calls
\* reset(), which clears the cancellation flag.
ProgressSetValue(flag, value, maximum) == IF value = maximum THEN FALSE ELSE flag

\* loadInfo once a folder cache was written or removed, or a stored file was removed by
\* someone else.
Disturbed(info) == [info EXCEPT !.undisturbed = FALSE]

NoStep == [branch |-> "none", slept |-> FALSE]

\* The value of folder_path while process_image_folder is not running.
NoFolder == "None"

\* Lines 686-699: load the cache, enumerate the images, return when there are none.
ScanBegin ==
    /\ pc = "idle"
    /\ todo # <<>>
    /\ Head(todo).op = "scan"
    /\ LET folder == Head(todo).folder IN
       IF ImagesIn(folder) = <<>>
       THEN /\ todo' = Tail(todo)
            /\ UNCHANGED <<scanVars, nominatim_api_cache, lookups, lastStep>>
       ELSE /\ pc' = "loop"
            /\ folder_path' = folder
            /\ idx' = 1
            /\ all_file_data' = _load_csv_cache(csv[folder])
            /\ wasCanceled' = FALSE
            /\ nominatim_api_cache' = ClearedCache(nominatim_api_cache)
            /\ lookups' = <<>>
            /\ lastStep' = NoStep
            /\ UNCHANGED todo
    /\ UNCHANGED <<clusterVars, viewVars, exifVars, csv, clock, photo_root_path, combinedVars, sinceLookup, lastGap>>

\* Lines 701-728: one iteration that passes the cancellation check.
ScanFile(readable, response) ==
    /\ pc = "loop"
    /\ LET rel_path == ImagesIn(folder_path)[idx]
           r == ProcessFile(all_file_data, nominatim_api_cache, rel_path, readable, response)
           genuine == r.events # <<>> /\ r.events[1].genuine
       IN  /\ all_file_data' = r.data
           /\ nominatim_api_cache' = r.cache
           /\ lookups' = lookups \o r.events
           /\ lastStep' = [branch |-> r.branch, slept |-> r.slept]
           /\ lastGap' = IF genuine THEN sinceLookup ELSE lastGap
           /\ sinceLookup' = IF r.slept THEN SleepTenths
                             ELSE IF genuine THEN 0 ELSE sinceLookup
    /\ idx' = idx + 1
    /\ pc' = IF idx = Len(ImagesIn(folder_path)) THEN "after_loop" ELSE "loop"
    /\ UNCHANGED <<clusterVars, viewVars, exifVars, csv, clock, photo_root_path, combinedVars, todo, folder_path, wasCanceled>>

\* Lines 702-703: the user has pressed "Abbrechen"; the loop is left at this boundary.
ScanCancel ==
    /\ pc = "loop"
    /\ wasCanceled' = TRUE
    /\ pc' = "after_loop"
    /\ UNCHANGED <<clusterVars, viewVars, exifVars, csv, clock, photo_root_path, combinedVars, todo, folder_path, idx,
                   all_file_data, geoVars>>

\* Lines 730-732: progress.setValue(len(image_files)), then save unless wasCanceled().
ScanFinish ==
    /\ pc = "after_loop"
    /\ LET n == Len(ImagesIn(folder_path))
           flag == ProgressSetValue(wasCanceled, n, n)
       IN  /\ wasCanceled' = flag
           /\ IF ~flag
              THEN /\ csv' = [csv EXCEPT ![folder_path] =
                                 [mtime |-> clock, header |-> CSV_FIELDNAMES,
                                  rows |-> SaveRows(all_file_data)]]
                   /\ clock' = clock + 1
                   /\ loadInfo' = Disturbed(loadInfo)
              ELSE UNCHANGED <<csv, clock, loadInfo>>
    /\ pc' = "idle"
    /\ todo' = Tail(todo)
    /\ idx' = 0
    /\ all_file_data' = <<>>
    /\ lookups' = <<>>
    /\ lastStep' = NoStep
    /\ folder_path' = NoFolder
    /\ UNCHANGED <<clusterVars, viewVars, exifVars, photo_root_path, parquet, manifest, master_df,
                   nominatim_api_cache, sinceLookup, lastGap>>

\* Lines 730-732 when _save_csv_cache is interrupted: open(.., 'w') has truncated the
\* file, `written` rows have reached it, and the exception is logged (lines 766-767).
ScanFinishSaveFails(written) ==
    /\ pc = "after_loop"
    /\ written < Len(all_file_data)
    /\ LET n == Len(ImagesIn(folder_path))
           flag == ProgressSetValue(wasCanceled, n, n)
       IN  /\ ~flag
           /\ wasCanceled' = flag
    /\ csv' = [csv EXCEPT ![folder_path] =
                  [mtime |-> clock, header |-> CSV_FIELDNAMES,
                   rows |-> SubSeq(SaveRows(all_file_data), 1, written)]]
    /\ clock' = clock + 1
    /\ loadInfo' = Disturbed(loadInfo)
    /\ pc' = "idle"
    /\ todo' = Tail(todo)
    /\ idx' = 0
    /\ all_file_data' = <<>>
    /\ lookups' = <<>>
    /\ lastStep' = NoStep
    /\ folder_path' = NoFolder
    /\ UNCHANGED <<clusterVars, viewVars, exifVars, photo_root_path, parquet, manifest, master_df,
                   nominatim_api_cache, sinceLookup, lastGap>>

-----------------------------------------------------------------------------
(* The combined cache: load_data_and_display_ui and force_rebuild_cache.   *)

\* os.walk(self.photo_root_path) visits the folders in this order.
FolderOrder == <<RootDir, "A", "B", "E">>

\* Lines 415-416: folder cache -> modification time, for every folder cache under the root.
found_csvs == [f \in {g \in CacheDirs : csv[g] # Absent} |-> csv[f].mtime]

\* json.dump of the manifest and json.load of the file: the times are written as text.
JsonDump(found) == [p \in DOMAIN found |-> repr(found[p])]
JsonLoad(file) == [p \in DOMAIN file |-> float(file[p]).f]

\* Mutant of ManifestMatches: a folder cache that disappeared goes unnoticed.
ManifestMatchesNoRemoval(manifest_data, found) ==
    \A p \in DOMAIN found : p \in DOMAIN manifest_data /\ manifest_data[p] = found[p]

\* Lines 422-423: the stored manifest agrees with the folder caches found.
ManifestMatches(manifest_data, found) ==
    /\ \A p \in DOMAIN found : p \in DOMAIN manifest_data /\ manifest_data[p] = found[p]
    /\ \A p \in DOMAIN manifest_data : p \in DOMAIN found

\* Lines 418-427: the stored dataset is used as it is.
CanReuse(cache_file, manifest_file, found) ==
    /\ cache_file # Absent
    /\ manifest_file # Absent
    /\ ManifestMatches(JsonLoad(manifest_file), found)

NaN == [k |-> "NaN"]

\* pd.to_numeric(errors='coerce') on a cell.
to_numeric(s) == IF IsFloatText(s) THEN float(s) ELSE NaN

DT2 == "2020:07:15 08:30:00"

ValidDatetimes == {DT1, DT2}

\* pd.to_datetime(errors='coerce', format='%Y:%m:%d %H:%M:%S') on a cell.
to_datetime(s) == IF s \in ValidDatetimes THEN [k |-> "Timestamp", s |-> s] ELSE NaN

\* Lines 434-437 and 446-451: one row of a folder cache as a row of the dataset.
DatasetRow(folder, row) ==
    [filepath |-> JoinPath(folder, row.filepath),
     SourceFolder |-> folder,
     latitude |-> to_numeric(row.latitude),
     longitude |-> to_numeric(row.longitude),
     country |-> row.country,
     city |-> row.city,
     datetime_original |-> to_datetime(row.datetime_original)]

RECURSIVE Concat(_, _)
\* Lines 431-443: the rows of the folder caches found, in the order of the walk.
Concat(order, found) ==
    IF order = <<>> THEN <<>>
    ELSE LET f == Head(order)
             part == IF f \in DOMAIN found
                     THEN [n \in DOMAIN csv[f].rows |-> DatasetRow(f, csv[f].rows[n])]
                     ELSE <<>>
         IN  part \o Concat(Tail(order), found)

-----------------------------------------------------------------------------
(* Clustering: haversine and _perform_clustering.                          *)

\* R, in metres.
EarthRadius == 6371000

\* R * radians(0.001), in decimetres (1111.95, rounded).
DecimetresPerMilliDegree == ((EarthRadius \div 1000) * 31416 + 90000) \div 180000

RECURSIVE CeilSqrtIn(_, _, _)
\* The least r in lo .. hi with r * r >= n.
CeilSqrtIn(n, lo, hi) ==
    IF lo = hi THEN lo
    ELSE LET mid == (lo + hi) \div 2
         IN  IF mid * mid >= n THEN CeilSqrtIn(n, lo, mid) ELSE CeilSqrtIn(n, mid + 1, hi)

CeilSqrt(n) == CeilSqrtIn(n, 0, 46340)

\* haversine, in whole metres rounded up, so that haversine(..) <= t for a whole number of
\* metres t is the comparison the code makes.  For coordinates within 0.1 degree of (0, 0),
\* as all coordinates here are, the great-circle distance is R * sqrt(dlat^2 + dlon^2) in
\* radians to within half a metre; along a meridian or the equator it is exactly that.
haversine(lat1, lon1, lat2, lon2) ==
    LET dlat == lat2 - lat1
        dlon == lon2 - lon1
        microdeg == CeilSqrt((dlat * dlat + dlon * dlon) * 1000000)
    IN  (microdeg * DecimetresPerMilliDegree + 9999) \div 10000

RECURSIVE SumOf(_, _)
SumOf(seq, field) == IF seq = <<>> THEN 0 ELSE Head(seq)[field] + SumOf(Tail(seq), field)

RECURSIVE ChainFrom(_, _, _, _, _)
\* Mutant of Absorbed: the distance is taken to the record absorbed last, not to the seed.
ChainFrom(d, ref, j, processed, distance) ==
    IF j > Len(d) THEN {}
    ELSE IF j \notin processed
            /\ haversine(d[ref].latitude, d[ref].longitude,
                         d[j].latitude, d[j].longitude) <= distance
         THEN {j} \cup ChainFrom(d, j, j + 1, processed, distance)
         ELSE ChainFrom(d, ref, j + 1, processed, distance)

AbsorbedChained(d, i, processed, distance) == ChainFrom(d, i, i + 1, processed, distance)

\* Mutant of WithinDistance: the comparison is strict.
WithinDistanceStrict(dist, distance) == dist < distance

\* Line 601: the comparison of a distance with self.cluster_distance.
WithinDistance(dist, distance) == dist <= distance

\* Lines 599-604: the later records that the cluster seeded by record i absorbs.
Absorbed(d, i, processed, distance) ==
    {j \in (i + 1) .. Len(d) :
        /\ j \notin processed
        /\ WithinDistance(haversine(d[i].latitude, d[i].longitude,
                                    d[j].latitude, d[j].longitude), distance)}

\* Mutant of MarkProcessed: only the seed is marked.
MarkSeedOnly(processed, i, absorbed) == processed \cup {i}

\* Lines 596 and 603: processed_indices after the cluster seeded by record i is complete.
MarkProcessed(processed, i, absorbed) == processed \cup {i} \cup absorbed

\* Mutant of Centroid: the sums start at zero and the seed is never added.
CentroidWithoutSeed(cluster_points, field) ==
    [num |-> SumOf(Tail(cluster_points), field), den |-> Len(cluster_points)]

\* Lines 597, 604 and 608: sum / count over the cluster's points, as the exact quotient.
Centroid(cluster_points, field) ==
    [num |-> SumOf(cluster_points, field), den |-> Len(cluster_points)]

RECURSIVE Sweep(_, _, _, _, _)
\* Lines 592-608: the outer loop from record i on; acc is self.clusters_data so far.
\* A centroid is the exact quotient num / den.
Sweep(d, distance, i, processed, acc) ==
    IF i > Len(d) THEN acc
    ELSE IF i \in processed THEN Sweep(d, distance, i + 1, processed, acc)
    ELSE
      LET absorbed == Absorbed(d, i, processed, distance)
          members == SelectSeq([n \in 1 .. Len(d) |-> n], LAMBDA j : j = i \/ j \in absorbed)
          cluster_points == [n \in DOMAIN members |->
                                [filepath |-> d[members[n]].filepath,
                                 latitude |-> d[members[n]].latitude,
                                 longitude |-> d[members[n]].longitude]]
          count == Len(cluster_points)
          cluster == [id |-> Len(acc),
                      points |-> cluster_points,
                      centroid_lat |-> Centroid(cluster_points, "latitude"),
                      centroid_lon |-> Centroid(cluster_points, "longitude"),
                      photo_count |-> count]
      IN  Sweep(d, distance, i + 1, MarkProcessed(processed, i, absorbed), Append(acc, cluster))

\* _perform_clustering: self.clusters_data after the call.
_perform_clustering(d, distance) == Sweep(d, distance, 1, {}, <<>>)

\* Coordinates of the records clustered, <<latitude, longitude>>: longitudes 0, 4 and 8
\* millidegrees on the equator are 445 m apart in a row; <<45, 0>> lies 5 km north of them.
ClusterCoords == {<<0, 0>>, <<0, 4>>, <<0, 8>>, <<45, 0>>}

\* Values of the stored setting "clusterDistance", in metres.
Thresholds == {0, 500, 1000}

PointNames == <<"p1.jpg", "p2.jpg", "p3.jpg", "p4.jpg", "p5.jpg">>

\* The data frames handed to _perform_clustering: 1 to MaxPoints geotagged records.
ClusterInputs ==
    UNION {[1 .. n -> ClusterCoords] : n \in 1 .. MaxPoints}

AsFrame(coords) ==
    [n \in DOMAIN coords |->
        [filepath |-> PointNames[n], latitude |-> coords[n][1], longitude |-> coords[n][2]]]

\* display_map_from_dataframe calls _perform_clustering on the geotagged records of a group.
PerformClustering(coords) ==
    /\ df' = AsFrame(coords)
    /\ clusters_data' = _perform_clustering(df', cluster_distance)
    /\ UNCHANGED <<csv, clock, photo_root_path, combinedVars, todo, scanVars, geoVars,
                   cluster_distance, viewVars, exifVars>>

-----------------------------------------------------------------------------
(* Grouping and display: populate_folder_list, on_folder_selected and       *)
(* display_map_from_dataframe.                                             *)

\* The entries of the combo box "Gruppieren nach".
GroupingModes == {"Ordner", "Jahr", "Jahr & Monat"}

\* .dt.year.astype(int).astype(str) and .dt.strftime('%Y-%m') of a timestamp.
YearOf(ts) == CASE ts.s = DT1 -> "2020" [] ts.s = DT2 -> "2020"
YearMonthOf(ts) == CASE ts.s = DT1 -> "2020-05" [] ts.s = DT2 -> "2020-07"

\* Mutant of NoDates: one row without a capture timestamp is enough for the fallback.
SomeUndated(master) == \E n \in DOMAIN master : master[n].datetime_original = NaN

\* Line 495: no row has a capture timestamp (or the column is missing).
NoDates(master) == \A n \in DOMAIN master : master[n].datetime_original = NaN

\* Lines 492-506: the rows that are counted, as positions in master.
GroupedRows(master, mode) ==
    IF mode = "Ordner" \/ NoDates(master) THEN DOMAIN master
    ELSE {n \in DOMAIN master : master[n].datetime_original # NaN}

\* Lines 493, 497, 502 and 504: the group name of a counted row, as the parts that " / "
\* separates in the text.
GroupName(master, mode, row) ==
    IF mode = "Ordner" \/ NoDates(master) THEN <<row.SourceFolder>>
    ELSE IF mode = "Jahr" THEN <<row.SourceFolder, YearOf(row.datetime_original)>>
    ELSE <<row.SourceFolder, YearMonthOf(row.datetime_original)>>

\* The group names in the order of sort_index (line 508): the text order of the names.
NamesOfFolder(f) == << <<f>>, <<f, "2020">>, <<f, "2020-05">>, <<f, "2020-07">> >>
NameOrder == NamesOfFolder(".") \o NamesOfFolder("A") \o NamesOfFolder("B") \o NamesOfFolder("E")

\* Lines 508-514: the radio buttons, one per group, with "name (count)" as [label, count].
GroupButtons(master, mode) ==
    LET rows == GroupedRows(master, mode)
        CountOf(name) == Cardinality({n \in rows : GroupName(master, mode, master[n]) = name})
        names == SelectSeq(NameOrder, LAMBDA name : CountOf(name) > 0)
    IN  [n \in DOMAIN names |-> [label |-> names[n], count |-> CountOf(names[n])]]

\* Lines 535-550: the rows on_folder_selected filters out of master for a button, or
\* NoDisplay when it returns before display_map_from_dataframe (line 541).
SelectedRows(master, mode, label) ==
    IF master = <<>> THEN NoDisplay
    ELSE IF mode = "Ordner"
    THEN [k |-> "group", label |-> label,
          rows |-> SelectSeq(master, LAMBDA row : <<row.SourceFolder>> = label)]
    ELSE IF Len(label) # 2 THEN NoDisplay
    ELSE [k |-> "group", label |-> label,
          rows |-> SelectSeq(master, LAMBDA row :
                      /\ row.SourceFolder = label[1]
                      /\ row.datetime_original # NaN
                      /\ IF mode = "Jahr" THEN YearOf(row.datetime_original) = label[2]
                         ELSE YearMonthOf(row.datetime_original) = label[2])]

\* Line 563: dropna(subset=['latitude', 'longitude', 'filepath']), as the frame that
\* _perform_clustering gets.
CleanFrame(rows) ==
    LET clean == SelectSeq(rows, LAMBDA row : row.latitude # NaN /\ row.longitude # NaN)
    IN  [n \in DOMAIN clean |-> [filepath |-> clean[n].filepath,
                                   latitude |-> clean[n].latitude.f,
                                   longitude |-> clean[n].longitude.f]]

\* on_folder_selected (lines 525-555) followed by display_map_from_dataframe (lines
\* 557-586) on a button: nothing is displayed when the filter returns early; the clusters
\* are left as they are when the group has no geotagged row (lines 564-566).
on_folder_selected(master, mode, distance, label) ==
    LET selected == SelectedRows(master, mode, label) IN
    IF selected = NoDisplay THEN UNCHANGED <<displayed, df, clusters_data>>
    ELSE /\ displayed' = selected
         /\ IF CleanFrame(selected.rows) = <<>>
            THEN UNCHANGED <<df, clusters_data>>
            ELSE /\ df' = CleanFrame(selected.rows)
                 /\ clusters_data' = _perform_clustering(df', distance)

\* populate_folder_list (lines 478-523) on self.master_df = master: the buttons are
\* rebuilt; the first one is checked and selected.  With an empty dataset the list is
\* hidden and nothing else happens (lines 483-485).
populate_folder_list(master, mode, distance) ==
    IF master = <<>>
    THEN /\ buttons' = <<>>
         /\ UNCHANGED <<displayed, df, clusters_data, message>>
    ELSE /\ buttons' = GroupButtons(master, mode)
         /\ message' = IF mode # "Ordner" /\ NoDates(master) THEN "Fehlende Daten" ELSE message
         /\ on_folder_selected(master, mode, distance, buttons'[1].label)

\* open_settings_dialog (lines 298-312), accepted: "Gespeichert" is shown and the list is
\* rebuilt.
OpenSettings(mode, distance) ==
    /\ pc = "idle" /\ todo = <<>>
    /\ grouping_mode' = mode
    /\ cluster_distance' = distance
    /\ IF master_df = <<>>
       THEN /\ buttons' = <<>>
            /\ message' = "Gespeichert"
            /\ UNCHANGED <<displayed, df, clusters_data>>
       ELSE /\ buttons' = GroupButtons(master_df, mode)
            /\ message' = IF mode # "Ordner" /\ NoDates(master_df) THEN "Fehlende Daten"
                          ELSE "Gespeichert"
            /\ on_folder_selected(master_df, mode, distance, buttons'[1].label)
    /\ UNCHANGED <<csv, clock, photo_root_path, combinedVars, todo, scanVars, geoVars, exifVars>>

\* A click on the radio button at position n (buttonClicked, line 269).
SelectGroup(n) ==
    /\ pc = "idle" /\ todo = <<>>
    /\ n \in DOMAIN buttons
    /\ on_folder_selected(master_df, grouping_mode, cluster_distance, buttons[n].label)
    /\ UNCHANGED <<csv, clock, photo_root_path, combinedVars, todo, scanVars, geoVars, exifVars,
                   grouping_mode, cluster_distance, buttons, message>>

-----------------------------------------------------------------------------
(* Loading: load_data_and_display_ui and the operations that call it.      *)

\* load_data_and_display_ui (lines 404-468), with the populate_folder_list that ends it
\* (line 468, or line 663 through clear_all_views when no root is selected).  pd.read_csv
\* raises on the folder caches in `failed` (lines 439-440).
LoadDataWith(failed) ==
    /\ pc = "idle"
    /\ todo # <<>>
    /\ Head(todo).op = "load"
    /\ todo' = Tail(todo)
    /\ IF photo_root_path = NoRoot
       THEN /\ master_df' = <<>>
            /\ UNCHANGED <<parquet, manifest, loadInfo>>
       ELSE LET found == found_csvs
                forced == Head(todo).caller = "force_rebuild_cache" /\ loadInfo.forced
            IN
            IF CanReuse(parquet, manifest, found)
            THEN /\ master_df' = parquet.rows
                 /\ loadInfo' = [rebuild_cache |-> FALSE, undisturbed |-> TRUE,
                                 forced |-> forced]
                 /\ UNCHANGED <<parquet, manifest>>
            ELSE /\ loadInfo' = [rebuild_cache |-> TRUE, undisturbed |-> TRUE,
                                 forced |-> forced]
                 /\ LET all_dfs == [p \in DOMAIN found \ failed |-> found[p]] IN
                    IF DOMAIN all_dfs # {}
                    THEN /\ master_df' = Concat(FolderOrder, all_dfs)
                         /\ parquet' = [rows |-> master_df']
                         /\ manifest' = JsonDump(found)
                    ELSE /\ master_df' = <<>>
                         /\ UNCHANGED <<parquet, manifest>>
    /\ populate_folder_list(master_df', grouping_mode, cluster_distance)
    /\ UNCHANGED <<grouping_mode, cluster_distance, exifVars, csv, clock, photo_root_path,
                   scanVars, geoVars>>

\* load_data_and_display_ui when every folder cache can be read.
LoadData == LoadDataWith({})

Idle == pc = "idle" /\ todo = <<>>

ScanCall(folder) == [op |-> "scan", folder |-> folder]
LoadCall(caller) == [op |-> "load", caller |-> caller]

\* Line 396: 'datetime_original' in header; on an empty file header is None and the test
\* raises.
HasDatetimeColumn(file) == \E n \in DOMAIN file.header : file.header[n] = "datetime_original"

\* _find_folders_to_update (lines 376-402): the subfolders with images whose cache is
\* missing (line 390), lacks the column datetime_original (line 396) or cannot be read
\* (line 398).
folders_to_update ==
    SelectSeq(FolderOrder,
              LAMBDA f : f \in Folders /\ (csv[f] = Absent \/ ~HasDatetimeColumn(csv[f])))

\* select_and_load_root_folder (lines 314-322); answer is the reply to "Analyse erforderlich".
SelectRoot(answer) ==
    /\ Idle
    /\ answer => clock + Len(folders_to_update) <= MaxClock
    /\ photo_root_path' = Root
    /\ todo' = (IF answer THEN [n \in DOMAIN folders_to_update |-> ScanCall(folders_to_update[n])]
                ELSE <<>>) \o <<LoadCall("select_and_load_root_folder")>>
    /\ UNCHANGED <<clusterVars, viewVars, exifVars, csv, clock, combinedVars, scanVars, geoVars>>

\* run_manual_exif_analysis (lines 324-335) on a folder inside the root.
ManualScan(folder) ==
    /\ Idle
    /\ clock < MaxClock
    /\ todo' = <<ScanCall(folder)>> \o
                (IF photo_root_path # NoRoot THEN <<LoadCall("run_manual_exif_analysis")>>
                 ELSE <<>>)
    /\ UNCHANGED <<clusterVars, viewVars, exifVars, csv, clock, photo_root_path, combinedVars, scanVars, geoVars>>

\* A call of load_data_and_display_ui or check_and_update_folders on its own, outside
\* select_and_load_root_folder.
DirectCall(op) ==
    /\ Idle
    /\ op = "check" => clock + Len(folders_to_update) <= MaxClock
    /\ todo' = <<[op |-> op, caller |-> "direct"]>>
    /\ UNCHANGED <<clusterVars, viewVars, exifVars, csv, clock, photo_root_path, combinedVars,
                   scanVars, geoVars>>

\* check_and_update_folders (lines 357-374): without a root it returns at once (line 358);
\* answer is the reply to "Analyse erforderlich".
CheckAndUpdate(answer) ==
    /\ pc = "idle"
    /\ todo # <<>>
    /\ Head(todo).op = "check"
    /\ todo' = (IF photo_root_path # NoRoot /\ answer
                THEN [n \in DOMAIN folders_to_update |-> ScanCall(folders_to_update[n])]
                ELSE <<>>) \o Tail(todo)
    /\ UNCHANGED <<clusterVars, viewVars, exifVars, csv, clock, photo_root_path, combinedVars,
                   scanVars, geoVars>>

\* force_rebuild_cache without a root (lines 338-340): the warning "Kein Ordner".
ForceRebuildNoRoot ==
    /\ Idle
    /\ photo_root_path = NoRoot
    /\ message' = "Kein Ordner"
    /\ UNCHANGED <<clusterVars, exifVars, csv, clock, photo_root_path, combinedVars, todo,
                   scanVars, geoVars, grouping_mode, buttons, displayed>>

\* Mutant of ForceRebuild: only the stored dataset is deleted.
ForceRebuildKeepsManifest ==
    /\ Idle
    /\ photo_root_path # NoRoot
    /\ parquet' = Absent
    /\ loadInfo' = [loadInfo EXCEPT !.forced = CanReuse(parquet, manifest, found_csvs)]
    /\ todo' = <<LoadCall("force_rebuild_cache")>>
    /\ UNCHANGED <<clusterVars, viewVars, exifVars, csv, clock, photo_root_path, manifest, master_df, scanVars,
                   geoVars>>

\* force_rebuild_cache (lines 337-355), confirmed with Yes.  loadInfo.forced records
\* whether the pair deleted was one the Load would have reused.
ForceRebuild ==
    /\ Idle
    /\ photo_root_path # NoRoot
    /\ parquet' = Absent
    /\ manifest' = Absent
    /\ loadInfo' = [loadInfo EXCEPT !.forced = CanReuse(parquet, manifest, found_csvs)]
    /\ todo' = <<LoadCall("force_rebuild_cache")>>
    /\ UNCHANGED <<clusterVars, viewVars, exifVars, csv, clock, photo_root_path, master_df, scanVars, geoVars>>

-----------------------------------------------------------------------------
(* The file system outside the program.                                    *)

\* A folder cache is rewritten or touched by someone else.
TouchFolderCache(folder) ==
    /\ Idle
    /\ csv[folder] # Absent
    /\ clock < MaxClock
    /\ csv' = [csv EXCEPT ![folder].mtime = clock]
    /\ clock' = clock + 1
    /\ loadInfo' = Disturbed(loadInfo)
    /\ UNCHANGED <<clusterVars, viewVars, exifVars, photo_root_path, parquet, manifest, master_df, todo, scanVars,
                   geoVars>>

\* A folder cache is deleted by someone else.
RemoveFolderCache(folder) ==
    /\ Idle
    /\ csv[folder] # Absent
    /\ csv' = [csv EXCEPT ![folder] = Absent]
    /\ loadInfo' = Disturbed(loadInfo)
    /\ UNCHANGED <<clusterVars, viewVars, exifVars, clock, photo_root_path, parquet, manifest, master_df, todo,
                   scanVars, geoVars>>

\* The stored dataset (which = "cache") or the stored manifest is deleted by someone else.
RemoveCombinedFile(which) ==
    /\ Idle
    /\ IF which = "cache"
       THEN parquet # Absent /\ parquet' = Absent /\ UNCHANGED manifest
       ELSE manifest # Absent /\ manifest' = Absent /\ UNCHANGED parquet
    /\ loadInfo' = Disturbed(loadInfo)
    /\ UNCHANGED <<clusterVars, viewVars, exifVars, csv, clock, photo_root_path, master_df, todo,
                   scanVars, geoVars>>

-----------------------------------------------------------------------------
(* The state machine.                                                      *)

Init ==
    /\ csv = [f \in CacheDirs |-> Absent]
    /\ clock = 1
    /\ photo_root_path = NoRoot
    /\ parquet = Absent
    /\ manifest = Absent
    /\ master_df = <<>>
    /\ loadInfo = [rebuild_cache |-> TRUE, undisturbed |-> FALSE, forced |-> FALSE]
    /\ todo = <<>>
    /\ pc = "idle"
    /\ folder_path = NoFolder
    /\ idx = 0
    /\ all_file_data = <<>>
    /\ wasCanceled = FALSE
    /\ nominatim_api_cache = <<>>
    /\ sinceLookup = LongAgo
    /\ lookups = <<>>
    /\ lastGap = LongAgo
    /\ lastStep = NoStep
    /\ cluster_distance = DefaultClusterDistance
    /\ df = <<>>
    /\ clusters_data = <<>>
    /\ grouping_mode = DefaultGroupingMode
    /\ buttons = <<>>
    /\ displayed = NoDisplay
    /\ message = NoMessage
    /\ gps_info = NoGps
    /\ decimal = <<None, None>>

Next ==
    \/ \E answer \in BOOLEAN : SelectRoot(answer)
    \/ \E folder \in ScanFolders : ManualScan(folder)
    \/ ForceRebuild
    \/ ScanBegin
    \/ \E readable \in BOOLEAN, n \in DOMAIN Responses : ScanFile(readable, Responses[n])
    \/ ScanCancel
    \/ ScanFinish
    \/ LoadData
    \/ \E folder \in ScanFolders : TouchFolderCache(folder)
    \/ \E folder \in ScanFolders : RemoveFolderCache(folder)
    \/ \E which \in {"cache", "manifest"} : RemoveCombinedFile(which)

Spec == Init /\ [][Next]_vars

\* The clustering alone, for every stored value of the distance setting.
InitCluster ==
    /\ csv = [f \in CacheDirs |-> Absent]
    /\ clock = 1
    /\ photo_root_path = NoRoot
    /\ parquet = Absent
    /\ manifest = Absent
    /\ master_df = <<>>
    /\ loadInfo = [rebuild_cache |-> TRUE, undisturbed |-> FALSE, forced |-> FALSE]
    /\ todo = <<>>
    /\ pc = "idle"
    /\ folder_path = NoFolder
    /\ idx = 0
    /\ all_file_data = <<>>
    /\ wasCanceled = FALSE
    /\ nominatim_api_cache = <<>>
    /\ sinceLookup = LongAgo
    /\ lookups = <<>>
    /\ lastGap = LongAgo
    /\ lastStep = NoStep
    /\ cluster_distance \in Thresholds
    /\ df = <<>>
    /\ clusters_data = <<>>
    /\ grouping_mode = DefaultGroupingMode
    /\ buttons = <<>>
    /\ displayed = NoDisplay
    /\ message = NoMessage
    /\ gps_info = NoGps
    /\ decimal = <<None, None>>

NextCluster == \E coords \in ClusterInputs : PerformClustering(coords)

SpecCluster == InitCluster /\ [][NextCluster]_vars

\* Rows a folder cache file may hold when the program finds it: a complete row of a1.jpg,
\* a row of a photo that is gone, and a row whose latitude is no number.
CacheRows ==
    { [filepath |-> "a1.jpg", latitude |-> "6", longitude |-> "12", country |-> "DE",
       city |-> "Berlin", datetime_original |-> DT1],
      [filepath |-> "old.jpg", latitude |-> "", longitude |-> "", country |-> "",
       city |-> "", datetime_original |-> ""],
      [filepath |-> "x.jpg", latitude |-> "n/a", longitude |-> "12", country |-> "",
       city |-> "", datetime_original |-> ""] }

\* The folder cache files found: none, or a file of up to MaxRows rows.
CacheFiles ==
    {Absent} \cup {[mtime |-> 0, header |-> CSV_FIELDNAMES, rows |-> rows] :
                      rows \in UNION {[1 .. n -> CacheRows] : n \in 0 .. MaxRows}}

\* One scan of folder A, whose cache file is any of CacheFiles and whose save may fail.
InitCsv ==
    /\ csv \in {[f \in CacheDirs |-> IF f = "A" THEN file ELSE Absent] : file \in CacheFiles}
    /\ clock = 1
    /\ photo_root_path = NoRoot
    /\ parquet = Absent
    /\ manifest = Absent
    /\ master_df = <<>>
    /\ loadInfo = [rebuild_cache |-> TRUE, undisturbed |-> FALSE, forced |-> FALSE]
    /\ todo = <<ScanCall("A")>>
    /\ pc = "idle"
    /\ folder_path = NoFolder
    /\ idx = 0
    /\ all_file_data = <<>>
    /\ wasCanceled = FALSE
    /\ nominatim_api_cache = <<>>
    /\ sinceLookup = LongAgo
    /\ lookups = <<>>
    /\ lastGap = LongAgo
    /\ lastStep = NoStep
    /\ cluster_distance = DefaultClusterDistance
    /\ df = <<>>
    /\ clusters_data = <<>>
    /\ grouping_mode = DefaultGroupingMode
    /\ buttons = <<>>
    /\ displayed = NoDisplay
    /\ message = NoMessage
    /\ gps_info = NoGps
    /\ decimal = <<None, None>>

NextCsv ==
    \/ ScanBegin
    \/ \E readable \in BOOLEAN, n \in DOMAIN Responses : ScanFile(readable, Responses[n])
    \/ ScanCancel
    \/ ScanFinish
    \/ \E written \in 0 .. (MaxRows + 1) : ScanFinishSaveFails(written)

SpecCsv == InitCsv /\ [][NextCsv]_vars

\* The operations called in any order, on their own and without a root as well, while
\* reads of folder caches may fail during a rebuild.
NextCalls ==
    \/ \E answer \in BOOLEAN : SelectRoot(answer)
    \/ ForceRebuild
    \/ ForceRebuildNoRoot
    \/ \E op \in {"load", "check"} : DirectCall(op)
    \/ \E answer \in BOOLEAN : CheckAndUpdate(answer)
    \/ ScanBegin
    \/ \E readable \in BOOLEAN, n \in DOMAIN Responses : ScanFile(readable, Responses[n])
    \/ ScanFinish
    \/ \E failed \in SUBSET Folders : LoadDataWith(failed)

SpecCalls == Init /\ [][NextCalls]_vars

\* Folder cache files of an earlier version, without the column datetime_original, and
\* an empty file.
OldCacheFiles ==
    { [mtime |-> 0, header |-> SubSeq(CSV_FIELDNAMES, 1, 5),
       rows |-> << [filepath |-> "a1.jpg", latitude |-> "6", longitude |-> "12",
                    country |-> "DE", city |-> "Berlin", datetime_original |-> ""] >>],
      [mtime |-> 0, header |-> <<>>, rows |-> <<>>] }

\* A root is loaded whose folder A holds any of CacheFiles or OldCacheFiles.
InitOffer ==
    /\ csv \in {[f \in CacheDirs |-> IF f = "A" THEN file ELSE Absent] :
                   file \in CacheFiles \cup OldCacheFiles}
    /\ clock = 1
    /\ photo_root_path = NoRoot
    /\ parquet = Absent
    /\ manifest = Absent
    /\ master_df = <<>>
    /\ loadInfo = [rebuild_cache |-> TRUE, undisturbed |-> FALSE, forced |-> FALSE]
    /\ todo = <<>>
    /\ pc = "idle"
    /\ folder_path = NoFolder
    /\ idx = 0
    /\ all_file_data = <<>>
    /\ wasCanceled = FALSE
    /\ nominatim_api_cache = <<>>
    /\ sinceLookup = LongAgo
    /\ lookups = <<>>
    /\ lastGap = LongAgo
    /\ lastStep = NoStep
    /\ cluster_distance = DefaultClusterDistance
    /\ df = <<>>
    /\ clusters_data = <<>>
    /\ grouping_mode = DefaultGroupingMode
    /\ buttons = <<>>
    /\ displayed = NoDisplay
    /\ message = NoMessage
    /\ gps_info = NoGps
    /\ decimal = <<None, None>>

NextOffer ==
    \/ \E answer \in BOOLEAN : SelectRoot(answer)
    \/ ScanBegin
    \/ \E readable \in BOOLEAN, n \in DOMAIN Responses : ScanFile(readable, Responses[n])
    \/ ScanFinish
    \/ LoadData

SpecOffer == InitOffer /\ [][NextOffer]_vars

\* Manual analyses of the root itself and of its subfolder A, and loads of the root.
NextNested ==
    \/ \E answer \in BOOLEAN : SelectRoot(answer)
    \/ \E folder \in {RootDir, "A"} : ManualScan(folder)
    \/ ScanBegin
    \/ \E readable \in BOOLEAN, n \in DOMAIN Responses : ScanFile(readable, Responses[n])
    \/ ScanFinish
    \/ LoadData

SpecNested == Init /\ [][NextNested]_vars

\* Two scans of folder A in a row, the first on any of CacheFiles: the second finds the
\* rows that the first one saved.
InitScan ==
    /\ csv \in {[f \in CacheDirs |-> IF f = "A" THEN file ELSE Absent] : file \in CacheFiles}
    /\ clock = 1
    /\ photo_root_path = NoRoot
    /\ parquet = Absent
    /\ manifest = Absent
    /\ master_df = <<>>
    /\ loadInfo = [rebuild_cache |-> TRUE, undisturbed |-> FALSE, forced |-> FALSE]
    /\ todo = <<ScanCall("A"), ScanCall("A")>>
    /\ pc = "idle"
    /\ folder_path = NoFolder
    /\ idx = 0
    /\ all_file_data = <<>>
    /\ wasCanceled = FALSE
    /\ nominatim_api_cache = <<>>
    /\ sinceLookup = LongAgo
    /\ lookups = <<>>
    /\ lastGap = LongAgo
    /\ lastStep = NoStep
    /\ cluster_distance = DefaultClusterDistance
    /\ df = <<>>
    /\ clusters_data = <<>>
    /\ grouping_mode = DefaultGroupingMode
    /\ buttons = <<>>
    /\ displayed = NoDisplay
    /\ message = NoMessage
    /\ gps_info = NoGps
    /\ decimal = <<None, None>>

NextScan ==
    \/ ScanBegin
    \/ \E readable \in BOOLEAN, n \in DOMAIN Responses : ScanFile(readable, Responses[n])
    \/ ScanCancel
    \/ ScanFinish

\* process_image_folder runs to its end once called: the loop and the save are straight
\* code of one handler, so a step that is possible is eventually taken.
SpecScan == InitScan /\ [][NextScan]_vars /\ WF_vars(NextScan)

\* Degrees, minutes and seconds of the GPS tags, and the GPSInfo blocks built from them.
DmsTriples == {<<d, m, sec>> : d \in 0 .. MaxDegrees, m \in {0, 30}, sec \in {0, 59}}

GpsBlocks ==
    [GPSLatitude : DmsTriples, GPSLatitudeRef : {"N", "S"},
     GPSLongitude : DmsTriples, GPSLongitudeRef : {"E", "W"}]

\* extract_exif_data on an image whose GPSInfo is any of GpsBlocks.
InitDms ==
    /\ csv = [f \in CacheDirs |-> Absent]
    /\ clock = 1
    /\ photo_root_path = NoRoot
    /\ parquet = Absent
    /\ manifest = Absent
    /\ master_df = <<>>
    /\ loadInfo = [rebuild_cache |-> TRUE, undisturbed |-> FALSE, forced |-> FALSE]
    /\ todo = <<>>
    /\ pc = "idle"
    /\ folder_path = NoFolder
    /\ idx = 0
    /\ all_file_data = <<>>
    /\ wasCanceled = FALSE
    /\ nominatim_api_cache = <<>>
    /\ sinceLookup = LongAgo
    /\ lookups = <<>>
    /\ lastGap = LongAgo
    /\ lastStep = NoStep
    /\ cluster_distance = DefaultClusterDistance
    /\ df = <<>>
    /\ clusters_data = <<>>
    /\ grouping_mode = DefaultGroupingMode
    /\ buttons = <<>>
    /\ displayed = NoDisplay
    /\ message = NoMessage
    /\ gps_info \in GpsBlocks
    /\ decimal = <<None, None>>

\* Lines 112-121 of extract_exif_data: both coordinates are converted.
ConvertGps ==
    /\ decimal = <<None, None>>
    /\ decimal' = GpsToDecimal(gps_info)
    /\ UNCHANGED <<csv, clock, photo_root_path, combinedVars, todo, scanVars, geoVars,
                   clusterVars, viewVars, gps_info>>

NextDms == ConvertGps

SpecDms == InitDms /\ [][NextDms]_vars

\* Records of a combined dataset, as load_data_and_display_ui builds them: two photos of
\* folder A taken in May and July 2020, 445 m apart, and one of folder B without timestamp
\* and position.
ViewRecords ==
    { [SourceFolder |-> "A", latitude |-> PyFloat(0), longitude |-> PyFloat(0),
       datetime_original |-> to_datetime(DT1)],
      [SourceFolder |-> "A", latitude |-> PyFloat(0), longitude |-> PyFloat(4),
       datetime_original |-> to_datetime(DT2)],
      [SourceFolder |-> "B", latitude |-> NaN, longitude |-> NaN,
       datetime_original |-> NaN] }

\* The datasets a load produces: up to MaxRecords records.
Datasets == UNION {[1 .. n -> ViewRecords] : n \in 0 .. MaxRecords}

\* The rows of a dataset, each with the path of its own file.
AsDataset(data) ==
    [n \in DOMAIN data |->
        [filepath |-> <<data[n].SourceFolder, PointNames[n]>>,
         SourceFolder |-> data[n].SourceFolder,
         latitude |-> data[n].latitude,
         longitude |-> data[n].longitude,
         country |-> "",
         city |-> "",
         datetime_original |-> data[n].datetime_original]]

\* Values of the spin box "Cluster-Distanz (Meter)" (50 to 10000).
SettingsDistances == {100, 1000}

\* load_data_and_display_ui as the view sees it: the folder caches under the root hold
\* the records of data, self.master_df becomes these records (line 443) and
\* populate_folder_list runs (line 468).
LoadDataset(data) ==
    /\ pc = "idle" /\ todo = <<>>
    /\ master_df' = AsDataset(data)
    /\ populate_folder_list(master_df', grouping_mode, cluster_distance)
    /\ UNCHANGED <<csv, clock, photo_root_path, parquet, manifest, loadInfo, todo, scanVars,
                   geoVars, exifVars, grouping_mode, cluster_distance>>

\* The view alone: loads of any dataset, accepted settings dialogs and clicks on groups.
NextView ==
    \/ \E data \in Datasets : LoadDataset(data)
    \/ \E mode \in GroupingModes, distance \in SettingsDistances : OpenSettings(mode, distance)
    \/ \E n \in 1 .. (MaxRecords + 1) : SelectGroup(n)

SpecView == Init /\ [][NextView]_vars


-----------------------------------------------------------------------------
(* Properties of the combined cache.                                       *)

\* This step is load_data_and_display_ui with a root selected.
LoadStep ==
    /\ pc = "idle"
    /\ todo # <<>>
    /\ Head(todo).op = "load"
    /\ todo' = Tail(todo)
    /\ photo_root_path # NoRoot

\* C1: a Load reuses the stored dataset, writing nothing, if and only if the stored dataset
\* and the stored manifest both exist and the stored manifest equals the observed manifest
\* (same folder caches, same modification times); otherwise it rebuilds from the folder caches.
C1_ReuseIffManifestEqual ==
    [][LoadStep =>
        LET equal == /\ parquet # Absent
                     /\ manifest # Absent
                     /\ JsonLoad(manifest) = found_csvs
        IN  /\ (~loadInfo'.rebuild_cache) <=> equal
            /\ equal => /\ master_df' = parquet.rows
                        /\ parquet' = parquet
                        /\ manifest' = manifest
            /\ ~equal => master_df' = Concat(FolderOrder, found_csvs)]_vars

\* A Load has reused a stored dataset that holds rows.
C1_Witness ==
    /\ photo_root_path = Root
    /\ ~loadInfo.rebuild_cache
    /\ parquet # Absent
    /\ master_df # <<>>

-----------------------------------------------------------------------------
(* Properties of the folder scan.                                          *)

InScan == pc \in {"loop", "after_loop"}

\* The table the running scan loaded (the folder cache is not written during a scan).
LoadedTable == _load_csv_cache(csv[folder_path])

\* The file the last loop iteration worked on.
LastPath == ImagesIn(folder_path)[idx - 1]

\* C2: a scan cancelled at a file boundary leaves the persisted folder cache as it was.
C2_CancelLeavesCacheFile ==
    [][(pc = "after_loop" /\ wasCanceled /\ pc' = "idle") => csv' = csv]_vars

\* C3: once a persisted row has a country (a city), no later scan persists the row of that
\* path without a country (a city).
C3_LocationNeverNulled ==
    [][\A f \in Folders :
        (csv[f] # Absent /\ csv'[f] # Absent) =>
          \A n \in DOMAIN csv[f].rows, m \in DOMAIN csv'[f].rows :
            csv[f].rows[n].filepath = csv'[f].rows[m].filepath =>
              /\ csv[f].rows[n].country # "" => csv'[f].rows[m].country # ""
              /\ csv[f].rows[n].city # "" => csv'[f].rows[m].city # ""]_vars

\* C4: for a path whose loaded row has a country, the iteration performs no geocode lookup,
\* neither genuine nor from the dedupe cache, and changes nothing of the table but a missing
\* capture timestamp of that row.
C4_KnownCountryNoLookup ==
    [][(pc = "loop" /\ idx' = idx + 1) =>
        LET rel_path == ImagesIn(folder_path)[idx]
            known == /\ DictHas(LoadedTable, rel_path)
                     /\ DictAt(LoadedTable, rel_path).country # None
        IN  known =>
              LET old == DictAt(LoadedTable, rel_path)
                  new == DictAt(all_file_data', rel_path)
              IN  /\ lookups' = lookups
                  /\ nominatim_api_cache' = nominatim_api_cache
                  /\ sinceLookup' = sinceLookup
                  /\ DictKeys(all_file_data') = DictKeys(all_file_data)
                  /\ \A q \in DictKeys(all_file_data) \ {rel_path} :
                        DictAt(all_file_data', q) = DictAt(all_file_data, q)
                  /\ \A field \in {"latitude", "longitude", "country", "city"} :
                        Get(new, field) = old[field]
                  /\ old.datetime_original # None =>
                        Get(new, "datetime_original") = old.datetime_original]_vars

\* The last iteration extracted a file whose loaded row had a country but no timestamp.
C4_Witness ==
    /\ InScan
    /\ idx > 1
    /\ lastStep.branch = "datetime"
    /\ DictHas(LoadedTable, LastPath)
    /\ DictAt(LoadedTable, LastPath).country # None
    /\ DictAt(LoadedTable, LastPath).datetime_original = None

\* C5: a scan skips a file only when its cached row has both a country and a capture
\* timestamp, so a row without a country is tried again by the next scan.
C5_SkipOnlyWhenResolved ==
    (InScan /\ idx > 1 /\ lastStep.branch = "skip") =>
        /\ DictHas(LoadedTable, LastPath)
        /\ DictAt(LoadedTable, LastPath).country # None
        /\ DictAt(LoadedTable, LastPath).datetime_original # None

\* C6: a save keeps every path of the folder cache and every latitude, longitude and
\* capture timestamp that the persisted row had.
C6_RowsOnlyFilled ==
    [][\A f \in Folders :
        (csv[f] # Absent /\ csv'[f] # Absent) =>
          \A n \in DOMAIN csv[f].rows :
            \E m \in DOMAIN csv'[f].rows :
              LET old == csv[f].rows[n]
                  new == csv'[f].rows[m]
              IN  /\ new.filepath = old.filepath
                  /\ old.latitude # "" => new.latitude = old.latitude
                  /\ old.longitude # "" => new.longitude = old.longitude
                  /\ old.datetime_original # "" =>
                        new.datetime_original = old.datetime_original]_vars

GenuineKeys == {lookups[n].key : n \in {m \in DOMAIN lookups : lookups[m].genuine}}

\* C8: the dedupe cache is empty when a scan starts on its first file, and during a scan it
\* holds exactly the keys looked up genuinely in that scan; an answer from the dedupe cache
\* follows a genuine lookup of the same key in the same scan.
C8_DedupeCachePerScan ==
    InScan =>
        /\ DOMAIN nominatim_api_cache = GenuineKeys
        /\ (pc = "loop" /\ idx = 1) => DOMAIN nominatim_api_cache = {}
        /\ \A n \in DOMAIN lookups :
              ~lookups[n].genuine =>
                 \E m \in 1 .. (n - 1) : lookups[m].genuine /\ lookups[m].key = lookups[n].key

\* A scan looks up genuinely a path that an earlier scan of the folder had already geocoded.
C8_Witness ==
    /\ pc = "loop"
    /\ idx = 2
    /\ Len(lookups) = 1
    /\ lookups[1].genuine
    /\ csv[folder_path] # Absent
    /\ \E n \in DOMAIN csv[folder_path].rows :
          /\ csv[folder_path].rows[n].filepath = lookups[1].path
          /\ csv[folder_path].rows[n].latitude # ""

\* C9: within one scan a key quantized to 2 decimal places is looked up genuinely at most
\* once; every later file with that key gets the first lookup's result, (None, None)
\* included, from the dedupe cache, and that result is what its row holds.
C9_OneLookupPerKey ==
    InScan =>
        /\ \A i, j \in DOMAIN lookups :
              (i < j /\ lookups[i].key = lookups[j].key) =>
                 /\ ~lookups[j].genuine
                 /\ lookups[j].result = lookups[i].result
        /\ \A n \in DOMAIN lookups :
              /\ lookups[n].key = nominatim_key(ExifOf(lookups[n].path).lat,
                                                ExifOf(lookups[n].path).lon)
              /\ DictHas(all_file_data, lookups[n].path)
              /\ DictAt(all_file_data, lookups[n].path).country = lookups[n].result[1]
              /\ DictAt(all_file_data, lookups[n].path).city = lookups[n].result[2]

\* Two files with different coordinates and one key; the first lookup failed and the second
\* file got (None, None) from the dedupe cache.
C9_Witness ==
    /\ InScan
    /\ Len(lookups) = 2
    /\ lookups[1].genuine
    /\ ~lookups[2].genuine
    /\ lookups[1].result = <<None, None>>
    /\ ExifOf(lookups[1].path).lat # ExifOf(lookups[2].path).lat
    /\ DictAt(all_file_data, lookups[2].path).country = None

-----------------------------------------------------------------------------
(* Properties of the clustering.                                           *)

\* The records (positions in df) that a cluster holds.
Members(cluster) ==
    {n \in DOMAIN df : \E k \in DOMAIN cluster.points : cluster.points[k].filepath = df[n].filepath}

Distance(i, j) == haversine(df[i].latitude, df[i].longitude, df[j].latitude, df[j].longitude)

\* Records 1, 2, 3 with d(1,2) <= T, d(2,3) <= T and d(1,3) > T.
NonTransitiveCase ==
    /\ Len(df) = 3
    /\ Distance(1, 2) <= cluster_distance
    /\ Distance(2, 3) <= cluster_distance
    /\ Distance(1, 3) > cluster_distance

\* C10: every cluster is its seed, the first record in input order that no earlier cluster
\* holds, plus exactly the later records not held by an earlier cluster whose distance to
\* the seed is at most the threshold; the non-transitive triple gives {P1, P2} and {P3}.
C10_SeedSweep ==
    df # <<>> =>
        /\ \A k \in DOMAIN clusters_data :
              LET earlier == UNION {Members(clusters_data[m]) : m \in 1 .. (k - 1)}
                  free == DOMAIN df \ earlier
                  seed == CHOOSE n \in free : \A m \in free : n <= m
              IN  /\ free # {}
                  /\ clusters_data[k].points[1].filepath = df[seed].filepath
                  /\ Members(clusters_data[k]) =
                        {seed} \cup {j \in free : j > seed /\ Distance(seed, j) <= cluster_distance}
                  /\ Len(clusters_data[k].points) = Cardinality(Members(clusters_data[k]))
        /\ UNION {Members(clusters_data[k]) : k \in DOMAIN clusters_data} = DOMAIN df
        /\ NonTransitiveCase =>
              /\ Len(clusters_data) = 2
              /\ Members(clusters_data[1]) = {1, 2}
              /\ Members(clusters_data[2]) = {3}

\* The non-transitive triple has been clustered.
C10_Witness == NonTransitiveCase /\ Len(clusters_data) = 2

\* The record (position in df) that opened a cluster.
SeedOf(cluster) == CHOOSE n \in DOMAIN df : df[n].filepath = cluster.points[1].filepath

\* C11: the clusters partition the input: every record is in exactly one cluster, no cluster
\* is empty or holds a record twice, each count is the number of members, the counts sum to
\* the number of records, and the ids are 0 .. k-1 in the order the clusters were opened.
C11_ClustersPartition ==
    /\ \A n \in DOMAIN df :
          Cardinality({k \in DOMAIN clusters_data : n \in Members(clusters_data[k])}) = 1
    /\ \A k \in DOMAIN clusters_data :
          /\ clusters_data[k].points # <<>>
          /\ \A m \in DOMAIN clusters_data[k].points :
                \E n \in DOMAIN df : df[n].filepath = clusters_data[k].points[m].filepath
          /\ Cardinality(Members(clusters_data[k])) = Len(clusters_data[k].points)
          /\ clusters_data[k].photo_count = Len(clusters_data[k].points)
          /\ clusters_data[k].id = k - 1
          /\ \A m \in 1 .. (k - 1) : SeedOf(clusters_data[m]) < SeedOf(clusters_data[k])
    /\ SumOf(clusters_data, "photo_count") = Len(df)

\* Three records in two clusters, the second of which absorbed a record.
C11_Witness ==
    /\ Len(df) = 3
    /\ Len(clusters_data) = 2
    /\ clusters_data[2].id = 1
    /\ clusters_data[2].photo_count = 2

RECURSIVE SumOver(_, _)
\* The sum of a field of the records of df at the positions in S.
SumOver(S, field) ==
    IF S = {} THEN 0
    ELSE LET n == CHOOSE m \in S : TRUE IN df[n][field] + SumOver(S \ {n}, field)

\* The quotient q is the mean of a field over the records at the positions in S.
IsMeanOf(q, S, field) == q.den > 0 /\ q.num * Cardinality(S) = SumOver(S, field) * q.den

CoordsAt(S) == {<<df[n].latitude, df[n].longitude>> : n \in S}

\* Two photos 445 m apart and a third 5 km away from them, in any order, at threshold 1000 m.
NearFarCase ==
    /\ Len(df) = 3
    /\ cluster_distance = 1000
    /\ CoordsAt(DOMAIN df) = {<<0, 0>>, <<0, 4>>, <<45, 0>>}

\* C12: the centroid of every cluster is the arithmetic mean of the latitudes and of the
\* longitudes of exactly its members; the near pair and the far point give two clusters, one
\* of count 2 at the mean of the pair and one of count 1 at the far point, in every order.
C12_CentroidIsMean ==
    /\ \A k \in DOMAIN clusters_data :
          /\ IsMeanOf(clusters_data[k].centroid_lat, Members(clusters_data[k]), "latitude")
          /\ IsMeanOf(clusters_data[k].centroid_lon, Members(clusters_data[k]), "longitude")
    /\ NearFarCase =>
          /\ Len(clusters_data) = 2
          /\ \E a, b \in DOMAIN clusters_data :
                /\ clusters_data[a].photo_count = 2
                /\ CoordsAt(Members(clusters_data[a])) = {<<0, 0>>, <<0, 4>>}
                /\ clusters_data[a].centroid_lat.num = 0
                /\ clusters_data[a].centroid_lon.num = 2 * clusters_data[a].centroid_lon.den
                /\ clusters_data[b].photo_count = 1
                /\ CoordsAt(Members(clusters_data[b])) = {<<45, 0>>}
                /\ clusters_data[b].centroid_lat.num = 45 * clusters_data[b].centroid_lat.den
                /\ clusters_data[b].centroid_lon.num = 0

\* The near pair and the far point were clustered with the far point between the pair.
C12_Witness ==
    /\ NearFarCase
    /\ df[2].latitude = 45
    /\ Len(clusters_data) = 2
    /\ clusters_data[1].photo_count = 2

\* C13: with threshold 0 there is one cluster per distinct coordinate: as many clusters as
\* distinct (latitude, longitude) values, and no cluster with two different coordinates.
C13_ThresholdZero ==
    cluster_distance = 0 =>
        /\ Len(clusters_data) = Cardinality(CoordsAt(DOMAIN df))
        /\ \A k \in DOMAIN clusters_data :
              Cardinality(CoordsAt(Members(clusters_data[k]))) = 1

\* Threshold 0 on three records, two of them at the same coordinate.
C13_Witness ==
    /\ cluster_distance = 0
    /\ Len(df) = 3
    /\ Cardinality(CoordsAt(DOMAIN df)) = 2
    /\ Len(clusters_data) = 2

-----------------------------------------------------------------------------
(* Properties of the rebuild and of the forced rebuild.                    *)

\* The manifest file holds this manifest (no file counts as the empty manifest).
StoredManifestIs(file, found) ==
    IF file = Absent THEN DOMAIN found = {} ELSE JsonLoad(file) = found

\* The dataset file holds these rows (no file counts as the empty dataset).
StoredDatasetIs(file, rows) ==
    IF file = Absent THEN rows = <<>> ELSE file.rows = rows

\* C14: after a Load that rebuilt, the stored manifest is the manifest that Load observed
\* and the stored dataset is the dataset it built, for every set of folder caches found,
\* the empty set included.
C14_RebuildPersists ==
    [][(LoadStep /\ loadInfo'.rebuild_cache) =>
          /\ StoredManifestIs(manifest', found_csvs)
          /\ StoredDatasetIs(parquet', master_df')]_vars

\* C15: a Load that follows a Load, with no folder cache written or removed in between (and
\* no stored file deleted), finds the stored pair not stale and writes neither file.
C15_SecondLoadReuses ==
    [][(LoadStep /\ loadInfo.undisturbed /\ Head(todo).caller # "force_rebuild_cache") =>
          /\ ~loadInfo'.rebuild_cache
          /\ parquet' = parquet
          /\ manifest' = manifest]_vars

\* This step is force_rebuild_cache, confirmed.
ForceStep ==
    /\ Idle
    /\ todo' # <<>>
    /\ Head(todo').op = "load"
    /\ Head(todo').caller = "force_rebuild_cache"

\* This step is the Load that force_rebuild_cache calls.
ForcedLoadStep == LoadStep /\ Head(todo).caller = "force_rebuild_cache"

\* C16: force_rebuild_cache deletes the stored dataset and the stored manifest and calls
\* Load at once; that Load finds both absent and rebuilds from the folder caches, also when
\* the deleted manifest was equal to the observed one.
C16_ForceRebuilds ==
    [][/\ ForceStep =>
            /\ parquet' = Absent
            /\ manifest' = Absent
            /\ todo' = <<LoadCall("force_rebuild_cache")>>
       /\ ForcedLoadStep =>
            /\ parquet = Absent
            /\ manifest = Absent
            /\ loadInfo'.rebuild_cache
            /\ master_df' = Concat(FolderOrder, found_csvs)
            /\ StoredManifestIs(manifest', found_csvs)]_vars

\* force_rebuild_cache deleted a pair that could have been reused, and its Load has rebuilt
\* the dataset from the folder caches.
C16_Witness ==
    /\ Idle
    /\ loadInfo.forced
    /\ loadInfo.rebuild_cache
    /\ loadInfo.undisturbed
    /\ parquet # Absent
    /\ master_df # <<>>

-----------------------------------------------------------------------------
(* Properties of the folder cache file.                                    *)

\* A field of a row of the scan table: a row built by the scan holds it under the short
\* key (lat, lon, datetime), a row loaded from the file under the long one.
FieldOf(details, short, long) ==
    IF short \in DOMAIN details THEN details[short] ELSE details[long]

\* This step is the end of a scan that saves the table.
SaveStep == pc = "after_loop" /\ pc' = "idle" /\ csv'[folder_path] # csv[folder_path]

\* C17: the table a scan saves is the table a Load of the saved file returns: the same paths
\* and for each path the same latitude, longitude, country, city and capture timestamp, a
\* latitude or longitude of 0 included.
C17_SaveLoadRoundTrip ==
    [][SaveStep =>
        LET loaded == _load_csv_cache(csv'[folder_path]) IN
        /\ DictKeys(loaded) = DictKeys(all_file_data)
        /\ \A path \in DictKeys(all_file_data) :
              LET saved == DictAt(all_file_data, path)
                  back == DictAt(loaded, path)
              IN  /\ back.latitude = FieldOf(saved, "lat", "latitude")
                  /\ back.longitude = FieldOf(saved, "lon", "longitude")
                  /\ back.country = saved.country
                  /\ back.city = saved.city
                  /\ back.datetime_original = FieldOf(saved, "datetime", "datetime_original")]_vars

\* C18: every photo record has latitude and longitude both present or both absent: in the
\* scan table, in the persisted folder caches, in the combined dataset and in its stored copy.
C18_CoordinatePairAtomic ==
    /\ \A n \in DOMAIN all_file_data :
          (FieldOf(all_file_data[n].val, "lat", "latitude") = None)
             <=> (FieldOf(all_file_data[n].val, "lon", "longitude") = None)
    /\ \A f \in ScanFolders :
          csv[f] # Absent =>
             \A n \in DOMAIN csv[f].rows :
                (csv[f].rows[n].latitude = "") <=> (csv[f].rows[n].longitude = "")
    /\ \A n \in DOMAIN master_df :
          (master_df[n].latitude = NaN) <=> (master_df[n].longitude = NaN)
    /\ parquet # Absent =>
          \A n \in DOMAIN parquet.rows :
             (parquet.rows[n].latitude = NaN) <=> (parquet.rows[n].longitude = NaN)

\* The rows of the file that float() accepts.
WellFormedRows(file) ==
    IF file = Absent THEN <<>> ELSE SelectSeq(file.rows, LAMBDA row : ~Malformed(row))

\* C19: a Load returns every well-formed row of the file, those after a malformed row
\* included, and omits only the malformed rows; an absent file gives the empty table.
C19_LoadSkipsOnlyMalformed ==
    (pc = "loop" /\ idx = 1) =>
        LET good == WellFormedRows(csv[folder_path]) IN
        /\ DictKeys(all_file_data) = {good[n].filepath : n \in DOMAIN good}
        /\ \A n \in DOMAIN good :
              (\A m \in DOMAIN good : m > n => good[m].filepath # good[n].filepath) =>
                 DictAt(all_file_data, good[n].filepath) = LoadRow(good[n])

\* This step ends a scan whose cancellation flag is clear, so that it calls Save.
SaveCallStep == pc = "after_loop" /\ pc' = "idle"

\* C20: when a Save ends, complete or interrupted, the file holds either the complete table
\* just saved or, unchanged, the table persisted before; never a part of the table.
C20_SaveIsAtomic ==
    [][SaveCallStep =>
          \/ csv'[folder_path] = csv[folder_path]
          \/ csv'[folder_path].rows = SaveRows(all_file_data)]_vars

-----------------------------------------------------------------------------
(* Properties of the grouping and of the display.                          *)

\* The positions of the records of self.master_df that carry a capture timestamp.
Dated == {n \in DOMAIN master_df : master_df[n].datetime_original # NaN}

\* The positions that a button with this label stands for under the mode in force.
MembersOf(label) ==
    IF grouping_mode = "Ordner" \/ Dated = {}
    THEN {n \in DOMAIN master_df : label = <<master_df[n].SourceFolder>>}
    ELSE {n \in Dated :
            /\ Len(label) = 2
            /\ label[1] = master_df[n].SourceFolder
            /\ label[2] = IF grouping_mode = "Jahr" THEN YearOf(master_df[n].datetime_original)
                          ELSE YearMonthOf(master_df[n].datetime_original)}

RECURSIVE CountSum(_)
\* The sum of the counts of the buttons at the positions in S.
CountSum(S) ==
    IF S = {} THEN 0
    ELSE LET n == CHOOSE m \in S : TRUE IN buttons[n].count + CountSum(S \ {n})

\* C21: with a dataset loaded, the buttons carry distinct labels and each count is the
\* number of records of its group; in mode "Ordner" every record lies in exactly one listed
\* group and the counts sum to the number of records; in the modes "Jahr" and
\* "Jahr & Monat" exactly the records with a capture timestamp are counted, each in the
\* group of its folder and year (or year and month); when no record has a timestamp the
\* folder groups are listed and the warning "Fehlende Daten" has been shown.
C21_GroupsCountRecords ==
    master_df # <<>> =>
        LET counted == IF grouping_mode = "Ordner" \/ Dated = {} THEN DOMAIN master_df
                       ELSE Dated
        IN  /\ \A i, j \in DOMAIN buttons : buttons[i].label = buttons[j].label => i = j
            /\ \A i \in DOMAIN buttons :
                   /\ buttons[i].count = Cardinality(MembersOf(buttons[i].label))
                   /\ buttons[i].count > 0
            /\ \A n \in counted :
                   Cardinality({i \in DOMAIN buttons : n \in MembersOf(buttons[i].label)}) = 1
            /\ \A n \in DOMAIN master_df \ counted :
                   \A i \in DOMAIN buttons : n \notin MembersOf(buttons[i].label)
            /\ CountSum(DOMAIN buttons) = Cardinality(counted)
            /\ (grouping_mode # "Ordner" /\ Dated = {}) =>
                   /\ message = "Fehlende Daten"
                   /\ \A i \in DOMAIN buttons : Len(buttons[i].label) = 1
            /\ (grouping_mode # "Ordner" /\ Dated # {}) =>
                   \A i \in DOMAIN buttons : Len(buttons[i].label) = 2

\* C21 happens: in mode "Jahr" a dataset with one dated record of folder A and one undated
\* record of folder B is listed as the single group "A / 2020" of one record.
C21_Witness ==
    /\ grouping_mode = "Jahr"
    /\ Len(master_df) = 2
    /\ Cardinality(Dated) = 1
    /\ buttons = << [label |-> <<"A", "2020">>, count |-> 1] >>

\* C22: once a group has been displayed, clusters_data is the clustering of the geotagged
\* records of the group displayed last under the distance in force, and is empty when that
\* group has no geotagged record.
C22_ClustersOfDisplayedGroup ==
    displayed # NoDisplay =>
        clusters_data = _perform_clustering(CleanFrame(displayed.rows), cluster_distance)

\* C27: whenever groups are listed, the group handed to the map last is a listed group and
\* holds as many records as the label of its button says.
C27_SelectionMatchesListing ==
    buttons # <<>> =>
        /\ displayed # NoDisplay
        /\ \E i \in DOMAIN buttons :
               /\ buttons[i].label = displayed.label
               /\ buttons[i].count = Len(displayed.rows)

-----------------------------------------------------------------------------
(* Fault tolerance of the folder scan.                                     *)

\* The entry of the file of the running iteration in self.all_file_data after it.
RowAfter == DictAt(all_file_data', ImagesIn(folder_path)[idx])

AllNone(details) == \A key \in DOMAIN details : details[key] = None

\* An iteration in which extract_exif_data was called and failed.
ExtractionFailsStep ==
    /\ \E n \in DOMAIN Responses : ScanFile(FALSE, Responses[n])
    /\ lastStep'.branch # "skip"

\* The end of a scan that was not cancelled.
UncancelledFinish == pc = "after_loop" /\ ~wasCanceled /\ pc' = "idle"

\* C23 as stated: whatever extractions and lookups fail, a scan that is not cancelled
\* terminates, has passed every enumerated file, and saves a row for each of them, where the
\* row of every file whose extraction failed has only empty fields.
C23_FailedRowsAllNull ==
    /\ [][ExtractionFailsStep => AllNone(RowAfter)]_vars
    /\ (pc = "loop" ~> pc = "idle")

\* C23, amended: whatever extractions and lookups fail, every iteration goes on to the next
\* file and leaves a row for its file, a scan that is not cancelled terminates after the
\* last file and saves exactly these rows, one for every enumerated file; the row of a file
\* whose extraction failed has only empty fields unless the cache held a row with a country
\* for it, whose position and place are kept.
C23_ScanToleratesFailures ==
    /\ [][(pc = "loop" /\ ~wasCanceled') =>
             /\ idx' = idx + 1
             /\ DictHas(all_file_data', ImagesIn(folder_path)[idx])]_vars
    /\ [][ExtractionFailsStep =>
             IF lastStep'.branch = "datetime"
             THEN /\ RowAfter.datetime_original = None
                  /\ Truthy(RowAfter.country)
                  /\ \A key \in {"latitude", "longitude", "country", "city"} :
                         RowAfter[key] = DictAt(all_file_data, ImagesIn(folder_path)[idx])[key]
             ELSE AllNone(RowAfter)]_vars
    /\ [][UncancelledFinish =>
             /\ idx = Len(ImagesIn(folder_path)) + 1
             /\ csv'[folder_path].rows = SaveRows(all_file_data)
             /\ \A k \in DOMAIN ImagesIn(folder_path) :
                    \E n \in DOMAIN csv'[folder_path].rows :
                       csv'[folder_path].rows[n].filepath = ImagesIn(folder_path)[k]]_vars
    /\ (pc = "loop" ~> pc = "idle")

\* C23 happens: a scan of folder A has been saved in which the extraction of a2.jpg failed;
\* the file holds an empty row for a2.jpg and a row for a1.jpg.
C23_Witness ==
    /\ pc = "idle"
    /\ csv["A"] # Absent
    /\ csv["A"].mtime > 0
    /\ \E n \in DOMAIN csv["A"].rows :
          /\ csv["A"].rows[n].filepath = "a2.jpg"
          /\ csv["A"].rows[n].latitude = ""
          /\ csv["A"].rows[n].datetime_original = ""
    /\ \E n \in DOMAIN csv["A"].rows : csv["A"].rows[n].filepath = "a1.jpg"

-----------------------------------------------------------------------------
(* Properties of the conversion of GPS coordinates.                        *)

Converted == decimal # <<None, None>>

\* Degrees + minutes / 60 + seconds / 3600 of a triple, in arcseconds.
Magnitude(dms) == dms[1] * 3600 + dms[2] * 60 + dms[3]

Abs(x) == IF x < 0 THEN -x ELSE x

MagnitudesAgree ==
    /\ Abs(decimal[1].f) = Magnitude(gps_info.GPSLatitude)
    /\ Abs(decimal[2].f) = Magnitude(gps_info.GPSLongitude)

\* C25 as stated: a reference S or W gives a strictly negative result, also for 0/0/0; a
\* reference N or E gives a non-negative one; the magnitude is deg + min/60 + sec/3600.
C25_SouthWestStrictlyNegative ==
    Converted =>
        /\ MagnitudesAgree
        /\ IF gps_info.GPSLatitudeRef = "S" THEN decimal[1].f < 0 ELSE decimal[1].f >= 0
        /\ IF gps_info.GPSLongitudeRef = "W" THEN decimal[2].f < 0 ELSE decimal[2].f >= 0

\* C25, amended: the magnitude is deg + min/60 + sec/3600; a reference N or E gives a
\* non-negative result; a reference S or W gives a result that is never positive, strictly
\* negative when the magnitude is not zero and zero for 0/0/0.
C25_SignFollowsReference ==
    Converted =>
        /\ MagnitudesAgree
        /\ IF gps_info.GPSLatitudeRef = "S"
           THEN decimal[1].f <= 0 /\ (decimal[1].f < 0 <=> Magnitude(gps_info.GPSLatitude) > 0)
           ELSE decimal[1].f >= 0
        /\ IF gps_info.GPSLongitudeRef = "W"
           THEN decimal[2].f <= 0 /\ (decimal[2].f < 0 <=> Magnitude(gps_info.GPSLongitude) > 0)
           ELSE decimal[2].f >= 0

\* C25 happens: 0 degrees 30 minutes 59 seconds South and 0/0/0 West have been converted,
\* to -1859 arcseconds and to zero.
C25_Witness ==
    /\ Converted
    /\ gps_info.GPSLatitude = <<0, 30, 59>> /\ gps_info.GPSLatitudeRef = "S"
    /\ gps_info.GPSLongitude = <<0, 0, 0>> /\ gps_info.GPSLongitudeRef = "W"
    /\ decimal = <<PyFloat(-1859), PyFloat(0)>>

-----------------------------------------------------------------------------
(* Operations that need a root, and the manifest after failed reads.       *)

\* A step of load_data_and_display_ui, of check_and_update_folders or of
\* force_rebuild_cache taken while no root is selected.
RootlessStep ==
    /\ photo_root_path = NoRoot
    /\ \/ pc = "idle" /\ todo # <<>> /\ Head(todo).op \in {"load", "check"}
       \/ ForceRebuildNoRoot

\* C24: an operation that needs a root and runs without one shows the message
\* "Kein Ordner" and changes no file and no cached state.
C24_RootlessCallsRejected ==
    [][RootlessStep =>
          /\ message' = "Kein Ordner"
          /\ UNCHANGED <<csv, parquet, manifest, master_df, clusters_data>>]_vars

\* C26: a folder cache that the stored manifest lists with the modification time it has
\* now has all its rows in the stored dataset.
C26_ManifestEntriesHaveRows ==
    (manifest # Absent /\ parquet # Absent) =>
        \A p \in DOMAIN manifest :
            (csv[p] # Absent /\ manifest[p] = repr(csv[p].mtime)) =>
                \A n \in DOMAIN csv[p].rows :
                    \E k \in DOMAIN parquet.rows :
                        parquet.rows[k] = DatasetRow(p, csv[p].rows[n])

-----------------------------------------------------------------------------
(* The folders offered for analysis.                                       *)

\* The folder holds new photos or outdated data: its cache file is missing, lacks the
\* column datetime_original, or has no row for one of the folder's images.
Outdated(f) ==
    \/ csv[f] = Absent
    \/ ~HasDatetimeColumn(csv[f])
    \/ \E k \in DOMAIN ImagesIn(f) :
          \A n \in DOMAIN csv[f].rows : csv[f].rows[n].filepath # ImagesIn(f)[k]

Offered == {folders_to_update[n] : n \in DOMAIN folders_to_update}

\* C29: whenever a root can be loaded, every subfolder with images that holds new photos or
\* outdated data is among the folders that _find_folders_to_update offers.
C29_OfferedCoversNewPhotos ==
    Idle => \A f \in Folders : Outdated(f) => f \in Offered

-----------------------------------------------------------------------------
(* Photos in the combined dataset.                                         *)

\* C28: no two rows of the combined dataset stand for the same image file.
C28_NoDuplicatePhotos ==
    \A i, j \in DOMAIN master_df : master_df[i].filepath = master_df[j].filepath => i = j

====
